---- MODULE Spec2Model ----
(***************************************************************************)
(* vistacli: one invocation of the command line (cli.py): the vsput        *)
(* command driving VSUploader.upload_file (upload.py), or a vsdir command  *)
(* (add, list, delete) driving VSApi (api.py), over a session created by   *)
(* VSAuth.create_session (auth.py).                                        *)
(* One state machine: the position of the single thread of control (pc),   *)
(* the locals of the command and of the running upload_file invocation,    *)
(* the sessions created, the network calls issued and the lines printed.   *)
(***************************************************************************)
EXTENDS Integers, Sequences, FiniteSets, TLC

\* ---------------------------------------------------------------- bounds
MaxFiles == 2
\* how many answers of the vendor may carry a Set-Cookie header in one run
MaxSetCookies == 1

\* ------------------------------------------------------- optional values
\* Python's None / a present value, as a sequence of length 0 / 1.
None == <<>>
Some(v) == <<v>>
IsNone(x) == x = <<>>
Val(x) == x[1]

\* ------------------------------------------------------ program constants
\* upload.py:19-27
SUPPORTED_IMAGE_TYPES ==
    [ image_jpeg |-> {".jpg", ".jpeg"},
      image_png  |-> {".png"},
      image_gif  |-> {".gif"},
      image_webp |-> {".webp"},
      image_bmp  |-> {".bmp"},
      image_tiff |-> {".tiff", ".tif"},
      image_svg  |-> {".svg"} ]

\* upload.py:29
SUPPORTED_EXTENSIONS == UNION { SUPPORTED_IMAGE_TYPES[m] : m \in DOMAIN SUPPORTED_IMAGE_TYPES }

\* upload.py:332
DefaultEntity == "1b0e4760-3503-11f0-8a9e-d56e42db09d2"

\* upload.py:339-346
MetaKeys == {"width", "height", "aspect_ratio", "codec_name", "codec_long_name",
             "r_frame_rate", "time_base", "pix_fmt"}

\* auth.py:17 with the paths of upload.py:119, 244, 324
StartUrl  == "https://vistasocial.com/api/publishing/media/upload/start"
FinishUrl == "https://vistasocial.com/api/publishing/media/upload/finish"
BatchUrl  == "https://vistasocial.com/api/publishing/media/batch"

\* --------------------------------------------------------------- inputs
\* A path given to vsput, with what the file system and mimetypes say of it:
\* kind (missing, a directory, a regular file), suffix.lower(), the guessed
\* MIME type (None when mimetypes cannot guess) and st_size.
FileInputs ==
    { [name |-> "gone.exe",  kind |-> "missing", ext |-> ".exe", mime |-> None,               size |-> 0],
      [name |-> "dir",       kind |-> "dir",     ext |-> "",     mime |-> None,               size |-> 0],
      [name |-> "tool.exe",  kind |-> "file",    ext |-> ".exe", mime |-> None,               size |-> 3],
      [name |-> "odd.png",   kind |-> "file",    ext |-> ".png", mime |-> None,               size |-> 3],
      [name |-> "doc.jpg",   kind |-> "file",    ext |-> ".jpg", mime |-> Some("text_plain"), size |-> 3],
      [name |-> "pic.jpeg",  kind |-> "file",    ext |-> ".jpeg", mime |-> Some("image_jpeg"), size |-> 4],
      [name |-> "photo.png", kind |-> "file",    ext |-> ".png", mime |-> Some("image_png"),  size |-> 5] }

Subfolders == { None, Some(""), Some("F1") }

\* What the clock and random.randint give _generate_temp_id.
Timestamps == { 5000 }
RandomNums == { 1000, 9999 }

\* upload.py:114: random.randint(1000, 9999)
RandMin == 1000
RandMax == 9999

\* What the vendor may answer.
UploadUrls == { "s3://a" }
MediaGids  == { "g1", "g2" }
MetaUrls   == { "cdn://m" }
TicketKeys == { "upload_url", "media_gid", "meta_url" }
TicketVals(k) == CASE k = "upload_url" -> UploadUrls
                   [] k = "media_gid"  -> MediaGids
                   [] k = "meta_url"   -> MetaUrls
StartResponses ==
    UNION { { t \in [D -> UploadUrls \cup MediaGids \cup MetaUrls] :
                \A k \in D : t[k] \in TicketVals(k) } : D \in SUBSET TicketKeys }

FinishResponses == { [media_gid |-> g, tempId |-> "srv"] : g \in MediaGids }

MetadataDomains == { {}, {"duration"}, {"width"}, {"width", "height", "duration"}, MetaKeys }
\* every key holding the same value v, or every key k holding its own value
MetadataResponses ==
    UNION { { [k \in D |-> "0"], [k \in D |-> k \o "=640"] } : D \in MetadataDomains }

BatchResponses == { [updated |-> "1"] }

\* The content of the credential file when it holds valid JSON (auth.py:90).
StoredCookies == [ sid |-> "abc", csrf |-> "xyz" ]

\* auth.py:111-119
SessionHeaders ==
    [ User_Agent      |-> "VistaSocialUI",
      Accept          |-> "application/json, text/plain, */*",
      Accept_Language |-> "en-US,en;q=0.5",
      Accept_Encoding |-> "gzip, deflate, br, zstd",
      DNT             |-> "1",
      Sec_GPC         |-> "1",
      Connection      |-> "keep-alive" ]

\* The options of a command that the model reads: --json / --csv / neither
\* (output), --media-path, the folder_name and folder_id arguments.
NoOpts == [ output |-> "titles", media_path |-> None, folder_name |-> "", folder_id |-> "" ]
CommandOpts(cmd) ==
    CASE cmd = "vsput"  -> { NoOpts }
      [] cmd = "list"   -> { [ NoOpts EXCEPT !.output = o, !.media_path = m ] :
                               o \in { "json", "csv", "titles" }, m \in { None, Some("F1") } }
      [] cmd = "add"    -> { [ NoOpts EXCEPT !.folder_name = "New", !.media_path = m ] :
                               m \in { None, Some("F1") } }
      [] cmd = "delete" -> { [ NoOpts EXCEPT !.folder_id = f ] : f \in { "F1", "nope" } }
Commands == { "vsput", "list", "add", "delete" }

VARIABLES
    issued,              \* the ids _generate_temp_id has returned in this invocation, with their inputs
    firefox,             \* what browser_cookie3 finds in Firefox: None (it raises) or the cookies of the domain
    extracted,           \* vsauth's cookies local
    auth_text,           \* the text of the credential file vsauth writes: None when there is no file
    api_ops,             \* the operations a caller has performed on one VSApi object, in order
    command,             \* the command invoked: "vsput", "list", "add", "delete"
    opts,                \* its options and arguments other than file_paths, subfolder
    auth_file,           \* the credential file: "missing", "invalid" or "ok"
    loads,               \* how many times load_cookies has read the credential file
    sessions,            \* the httpx sessions create_session has built, in order
    cookie_refreshes,    \* how many answers with a Set-Cookie header the vendor may still send
    client,              \* VSUploader.client / VSApi.client: None or a position in sessions
    file_paths,          \* vsput's file_paths argument
    subfolder,           \* vsput's --subfolder option
    idx,                 \* position of the for loop of vsput in file_paths
    pc,                  \* position of the thread of control
    temp_id,             \* upload_file local
    upload_info,         \* upload_file local
    result,              \* upload_file local
    metadata,            \* upload_file local
    calls,               \* network calls issued by the running upload_file
    folder_calls,        \* network calls issued by VSApi
    attempted,           \* the paths vsput has called upload_file on, in order
    raised,              \* the exception upload_file raised, if any
    returned,            \* the value upload_file returned, if it returned
    api_raised,          \* the exception create_session or a VSApi method raised, if any
    api_returned,        \* the value a VSApi method returned, if it returned
    stdout,              \* lines printed to standard output, each a sequence of pieces
    stderr,              \* lines printed to standard error, each a sequence of pieces
    successful_uploads,  \* vsput local
    failed_uploads,      \* vsput local
    exit_code            \* None while running, then the process exit code

vars == << issued, firefox, extracted, auth_text, api_ops, command, opts, auth_file, loads, sessions, cookie_refreshes, client, file_paths, subfolder,
           idx, pc, temp_id, upload_info, result, metadata, calls, folder_calls,
           attempted, raised, returned, api_raised, api_returned, stdout, stderr,
           successful_uploads, failed_uploads, exit_code >>

\* what only the specifications of single functions change
other_state == << issued, firefox, extracted, auth_text, api_ops >>

locals == << temp_id, upload_info, result, metadata >>
vsput_state == << auth_file, client, file_paths, subfolder, idx,
                  successful_uploads, failed_uploads, exit_code >>
\* what no statement of upload_file touches
cli_state == << other_state, command, opts, loads, folder_calls, attempted, api_raised, api_returned,
               stdout, stderr >>
\* the sessions and what the vendor may still do to them
session_state == << sessions, cookie_refreshes >>

file_path == file_paths[idx]

Error(type, msg) == Some([type |-> type, msg |-> msg])

\* the sequences over S of length 1..n
SeqsUpTo(S, n) == UNION { [1..k -> S] : k \in 1..n }

\* the state every command starts in, its arguments apart
Start ==
    /\ issued = <<>>
    /\ firefox = None
    /\ extracted = None
    /\ auth_text = None
    /\ api_ops = <<>>
    /\ auth_file \in { "missing", "invalid", "ok" }
    /\ loads = 0
    /\ sessions = <<>>
    /\ client = None
    /\ idx = 0
    /\ folder_calls = <<>>
    /\ attempted = <<>>
    /\ api_raised = None
    /\ api_returned = None
    /\ stdout = <<>>
    /\ stderr = <<>>

\* The vendor of Init sets no cookie.
Init ==
    /\ Start
    /\ cookie_refreshes = 0
    /\ command \in Commands
    /\ opts \in CommandOpts(command)
    /\ IF command = "vsput"
       THEN /\ file_paths \in SeqsUpTo(FileInputs, MaxFiles)
            /\ subfolder \in Subfolders
            /\ pc = "vsput"
       ELSE /\ file_paths = <<>>
            /\ subfolder = None
            /\ pc = "folder"
    /\ temp_id = None
    /\ upload_info = None
    /\ result = None
    /\ metadata = None
    /\ calls = <<>>
    /\ raised = None
    /\ returned = None
    /\ successful_uploads = <<>>
    /\ failed_uploads = <<>>
    /\ exit_code = None

\* load_cookies_error, with a file that cannot be parsed read as no cookies
load_cookies_error_lenient(af) ==
    IF af = "missing"
    THEN Some([type |-> "RuntimeError", msg |-> "Failed to load cookies: Auth file not found"])
    ELSE None

\* auth.py:85-100: the error load_cookies raises, or None. The
\* FileNotFoundError of auth.py:87 is caught by the except Exception of
\* auth.py:98 and raised again as a RuntimeError.
load_cookies_error(af) ==
    IF af = "missing"
    THEN Error("RuntimeError", "Failed to load cookies: Auth file not found")
    ELSE IF af = "invalid"
         THEN Error("RuntimeError", "Invalid auth file format")
         ELSE None

\* auth.py:95-100: what load_cookies logs before it raises
load_cookies_log(af) ==
    IF af = "missing"
    THEN << << "vsauth: failed to load cookies: ", "Auth file not found" >> >>
    ELSE IF af = "invalid"
         THEN << << "vsauth: invalid JSON in auth file: ", "Expecting value" >> >>
         ELSE <<>>

\* auth.py:121-126: the client create_session builds
new_session(cookies) == [ cookies |-> cookies, headers |-> SessionHeaders, open |-> TRUE ]

\* cli.py:194-201 and 241-243; upload.py:35-37; auth.py:75-131
vsput_init ==
    /\ pc = "vsput"
    /\ loads' = loads + 1
    /\ api_raised' = load_cookies_error(auth_file)
    /\ IF IsNone(api_raised')
       THEN /\ sessions' = Append(sessions, new_session(StoredCookies))
            /\ client' = Some(Len(sessions'))
            /\ pc' = "loop"
            /\ UNCHANGED << exit_code, stderr >>
       ELSE /\ stderr' = Append(stderr \o load_cookies_log(auth_file),
                                 << "Error initializing uploader: ", Val(api_raised').msg >>)
            /\ pc' = "exit"
            /\ exit_code' = Some(1)
            /\ UNCHANGED << sessions, client >>
    /\ UNCHANGED << other_state, command, opts, auth_file, cookie_refreshes, file_paths, subfolder, idx,
                    locals, calls, raised, folder_calls, attempted, returned, api_returned,
                    stdout, successful_uploads, failed_uploads >>

\* cli.py:204-207: the for loop takes the next path and calls upload_file
vsput_next_file ==
    /\ pc = "loop"
    /\ idx < Len(file_paths)
    /\ idx' = idx + 1
    /\ pc' = "upload_file"
    /\ temp_id' = None
    /\ upload_info' = None
    /\ result' = None
    /\ metadata' = None
    /\ calls' = <<>>
    /\ raised' = None
    /\ returned' = None
    /\ attempted' = Append(attempted, file_paths[idx'].name)
    /\ UNCHANGED << other_state, command, opts, auth_file, loads, sessions, cookie_refreshes, client, file_paths,
                    subfolder, folder_calls, api_raised, api_returned, stdout, stderr,
                    successful_uploads,
                    failed_uploads, exit_code >>

\* after, with the finish-upload call moved before the preflight
after_finish_before_preflight(at) ==
    CASE at = "upload_file"      -> "generate_temp_id"
      [] at = "generate_temp_id" -> "start"
      [] at = "start"            -> "store"
      [] at = "store"            -> "finish"
      [] at = "finish"           -> "preflight"
      [] at = "preflight"        -> "metadata"
      [] at = "metadata"         -> "associate"
      [] at = "associate"        -> "return"

\* upload.py:55-93: the statement that follows each statement of upload_file
\* when it raises nothing
after(at) ==
    CASE at = "upload_file"      -> "generate_temp_id"
      [] at = "generate_temp_id" -> "start"
      [] at = "start"            -> "store"
      [] at = "store"            -> "preflight"
      [] at = "preflight"        -> "finish"
      [] at = "finish"           -> "metadata"
      [] at = "metadata"         -> "associate"
      [] at = "associate"        -> "return"

\* validate_file_type, with the MIME gate checked before the extension gate
validate_file_type_mime_first(f) ==
    IF IsNone(f.mime) \/ Val(f.mime) \notin DOMAIN SUPPORTED_IMAGE_TYPES
    THEN Error("ValueError", "Unsupported MIME type")
    ELSE IF f.ext \notin SUPPORTED_EXTENSIONS
         THEN Error("ValueError", "Unsupported file extension")
         ELSE None

\* upload.py:95-107: None when the type is supported, else the error raised
validate_file_type(f) ==
    IF f.ext \notin SUPPORTED_EXTENSIONS
    THEN Error("ValueError", "Unsupported file extension")
    ELSE IF IsNone(f.mime) \/ Val(f.mime) \notin DOMAIN SUPPORTED_IMAGE_TYPES
         THEN Error("ValueError", "Unsupported MIME type")
         ELSE None

\* check_preconditions, with a path that is not a regular file reported as
\* not found
check_preconditions_not_found(f) ==
    IF f.kind # "file"
    THEN Error("FileNotFoundError", "File not found")
    ELSE validate_file_type(f)

\* upload.py:55-65: None when every precondition holds, else the error raised
check_preconditions(f) ==
    IF f.kind = "missing"
    THEN Error("FileNotFoundError", "File not found")
    ELSE IF f.kind # "file"
         THEN Error("ValueError", "Not a file")
         ELSE validate_file_type(f)

\* upload.py:55-65
upload_file_validate ==
    /\ pc = "upload_file"
    /\ raised' = check_preconditions(file_path)
    /\ pc' = IF IsNone(raised') THEN after("upload_file") ELSE "except"
    /\ UNCHANGED << vsput_state, cli_state, session_state, locals, calls, returned >>

\* upload.py:113: int(time.time() * 1000), the clock read in microseconds
timestamp_of(now) == now \div 1000

\* A correlation id that writes the random number after the timestamp.
make_temp_id_concat(timestamp, random_num) == ToString(timestamp) \o ToString(random_num)

\* upload.py:113-115: str(timestamp + random_num)
make_temp_id(timestamp, random_num) == ToString(timestamp + random_num)

\* upload.py:68 and 109-115
generate_temp_id ==
    /\ pc = "generate_temp_id"
    /\ \E timestamp \in Timestamps, random_num \in RandomNums :
          temp_id' = Some(make_temp_id(timestamp, random_num))
    /\ pc' = after("generate_temp_id")
    /\ UNCHANGED << vsput_state, cli_state, session_state, upload_info, result, metadata, calls, raised, returned >>

\* What a server may answer to a call whose 2xx body is one of Bodies:
\* a non-2xx status, a 2xx status with a body that is not JSON (json = None),
\* or a 2xx status with a JSON body.
Responses(Bodies) ==
    { [status |-> "non2xx", json |-> None], [status |-> "2xx", json |-> None] }
    \cup { [status |-> "2xx", json |-> Some(b)] : b \in Bodies }

\* What a server may answer to a call whose body is not read.
StatusResponses ==
    { [status |-> "non2xx", json |-> None], [status |-> "2xx", json |-> None] }

\* response.raise_for_status() followed by response.json(): the error raised,
\* or None
json_error(resp) ==
    IF resp.status # "2xx" THEN Error("HTTPStatusError", "status")
    ELSE IF IsNone(resp.json) THEN Error("JSONDecodeError", "body")
    ELSE None

\* status_error, with the status never checked
status_error_ignored(resp) == None

\* response.raise_for_status() alone
status_error(resp) ==
    IF resp.status # "2xx" THEN Error("HTTPStatusError", "status") ELSE None

\* the name-value pairs of a mapping
Pairs(mapping) == { << n, mapping[n] >> : n \in DOMAIN mapping }

\* The cookies the vendor may set: a name and a value.
SetCookies == { << "sid", "rotated" >> }

\* The Set-Cookie header an answer of the vendor may carry.
SetCookieChoices ==
    IF cookie_refreshes > 0 THEN { None } \cup { Some(c) : c \in SetCookies } ELSE { None }

\* store_cookies, with the jar replaced by the cookie of the answer
store_cookies_replacing(sess, set_cookie) ==
    IF IsNone(set_cookie)
    THEN sess
    ELSE [ sess EXCEPT !.cookies = (Val(set_cookie)[1] :> Val(set_cookie)[2]) ]

\* httpx.Client stores the cookies of every response it receives in its jar
\* (auth.py:121-126 builds the client; the calls are upload.py:163, 276, 373
\* and api.py:83, 154, 212).
store_cookies(sess, set_cookie) ==
    IF IsNone(set_cookie)
    THEN sess
    ELSE [ sess EXCEPT !.cookies = (Val(set_cookie)[1] :> Val(set_cookie)[2]) @@ @ ]

\* the sessions after the client c has received an answer
received(all, c, set_cookie) ==
    [ all EXCEPT ![Val(c)] = store_cookies(@, set_cookie) ]

\* the budget of Set-Cookie answers after one answer
refreshes_left(set_cookie) ==
    IF IsNone(set_cookie) THEN cookie_refreshes ELSE cookie_refreshes - 1

\* cookies_sent, with every request sent through the session
cookies_sent_by_session(req) == Pairs(sessions[Val(client)].cookies)

\* The cookies httpx sends with a request: those of the jar of the client
\* it is sent through, the session's for self.client (upload.py:163, 276,
\* 373) and none for a client just built by httpx.Client() (upload.py:207,
\* 237, 309).
cookies_sent(req) ==
    IF req.client = "session" THEN Pairs(sessions[Val(client)].cookies) ELSE {}

\* An entry of the log of calls: the request, the cookies sent with it and
\* the answer.
call(req, resp) == [ req |-> req, cookies |-> cookies_sent(req), resp |-> resp ]

\* upload.py:147-149, 182-184
guessed_mime(f) == IF IsNone(f.mime) THEN "application/octet-stream" ELSE Val(f.mime)

\* upload.py:121-124, 151-156: the start-upload request
start_request(f, tid) ==
    [ step |-> "Start", client |-> "session", method |-> "POST", url |-> StartUrl,
      params |-> [tempId |-> tid, replacement_type |-> ""],
      json |-> [name |-> f.name, mimetype |-> guessed_mime(f), size |-> f.size,
                hibernated |-> TRUE] ]

\* upload.py:73 and 117-171
start_upload ==
    /\ pc = "start"
    /\ \E resp \in Responses(StartResponses), sc \in SetCookieChoices :
          /\ sessions' = received(sessions, client, sc)
          /\ cookie_refreshes' = refreshes_left(sc)
          /\ calls' = Append(calls, call(start_request(file_path, Val(temp_id)), resp))
          /\ raised' = json_error(resp)
          /\ upload_info' = IF IsNone(raised') THEN resp.json ELSE upload_info
    /\ pc' = IF IsNone(raised') THEN after("start") ELSE "except"
    /\ UNCHANGED << vsput_state, cli_state, temp_id, result, metadata, returned >>

\* store_request, with the bytes always sent as application/octet-stream
store_request_octet_stream(f, upload_url) ==
    [ step |-> "Store", client |-> "fresh", method |-> "PUT", url |-> upload_url,
      content_length |-> f.size,
      headers |-> [content_type |-> "application/octet-stream",
                   content_disposition |-> "inline"] ]

\* upload.py:177-200, 208: the PUT of the file's bytes
store_request(f, upload_url) ==
    [ step |-> "Store", client |-> "fresh", method |-> "PUT", url |-> upload_url,
      content_length |-> f.size,
      headers |-> [content_type |-> guessed_mime(f), content_disposition |-> "inline"] ]

\* upload.py:76 and 173-212
upload_to_s3 ==
    /\ pc = "store"
    /\ IF "upload_url" \notin DOMAIN Val(upload_info)
       THEN /\ raised' = Error("KeyError", "upload_url")
            /\ calls' = calls
       ELSE \E resp \in StatusResponses :
            /\ calls' = Append(calls, call(store_request(file_path, Val(upload_info)["upload_url"]), resp))
            /\ raised' = status_error(resp)
    /\ pc' = IF IsNone(raised') THEN after("store") ELSE "except"
    /\ UNCHANGED << vsput_state, cli_state, session_state, locals, returned >>

\* upload.py:218-237: the CORS preflight
options_request_of(upload_url) ==
    [ step |-> "Preflight", client |-> "fresh", method |-> "OPTIONS", url |-> upload_url,
      headers |-> [access_control_request_method |-> "PUT",
                   access_control_request_headers |-> "content-disposition,content-type"] ]

\* upload.py:79 and 214-240
options_request ==
    /\ pc = "preflight"
    /\ \E resp \in StatusResponses :
          /\ calls' = Append(calls, call(options_request_of(Val(upload_info)["upload_url"]), resp))
          /\ raised' = status_error(resp)
    /\ pc' = IF IsNone(raised') THEN after("preflight") ELSE "except"
    /\ UNCHANGED << vsput_state, cli_state, session_state, locals, returned >>

\* finish_request, with a correlation id generated anew for the finish call
finish_request_new_id(tid, media_gid) ==
    [ step |-> "Finish", client |-> "session", method |-> "POST", url |-> FinishUrl,
      params |-> [tempId |-> make_temp_id(CHOOSE t \in Timestamps : TRUE,
                                          CHOOSE r \in RandomNums : TRUE),
                  hibernated |-> "true", id |-> media_gid,
                  success |-> "true", replacement_type |-> ""] ]

\* upload.py:244-252, 276: the finish-upload request
finish_request(tid, media_gid) ==
    [ step |-> "Finish", client |-> "session", method |-> "POST", url |-> FinishUrl,
      params |-> [tempId |-> tid, hibernated |-> "true", id |-> media_gid,
                  success |-> "true", replacement_type |-> ""] ]

\* upload.py:82 and 242-284
finish_upload ==
    /\ pc = "finish"
    /\ IF "media_gid" \notin DOMAIN Val(upload_info)
       THEN /\ raised' = Error("KeyError", "media_gid")
            /\ calls' = calls
            /\ result' = result
            /\ UNCHANGED session_state
       ELSE \E resp \in Responses(FinishResponses), sc \in SetCookieChoices :
            /\ sessions' = received(sessions, client, sc)
            /\ cookie_refreshes' = refreshes_left(sc)
            /\ calls' = Append(calls, call(finish_request(Val(temp_id), Val(upload_info)["media_gid"]), resp))
            /\ raised' = json_error(resp)
            /\ result' = IF IsNone(raised') THEN resp.json ELSE result
    /\ pc' = IF IsNone(raised') THEN after("finish") ELSE "except"
    /\ UNCHANGED << vsput_state, cli_state, temp_id, upload_info, metadata, returned >>

\* upload.py:86: 'meta_url' in upload_info
has_meta_url(info) == "meta_url" \in DOMAIN info

\* upload.py:305-310: the metadata GET
metadata_request(meta_url) ==
    [ step |-> "Metadata", client |-> "fresh", method |-> "GET", url |-> meta_url ]

\* fetch_metadata, with a failed fetch swallowed (metadata stays None)
fetch_metadata_best_effort ==
    /\ pc = "metadata"
    /\ has_meta_url(Val(upload_info))
    /\ \E resp \in Responses(MetadataResponses) :
          /\ calls' = Append(calls, call(metadata_request(Val(upload_info)["meta_url"]), resp))
          /\ metadata' = IF IsNone(json_error(resp)) THEN resp.json ELSE None
    /\ raised' = None
    /\ pc' = after("metadata")
    /\ UNCHANGED << vsput_state, cli_state, session_state, temp_id, upload_info, result, returned >>

\* upload.py:85-87 and 286-318, when the ticket has a meta_url
fetch_metadata ==
    /\ pc = "metadata"
    /\ has_meta_url(Val(upload_info))
    /\ \E resp \in Responses(MetadataResponses) :
          /\ calls' = Append(calls, call(metadata_request(Val(upload_info)["meta_url"]), resp))
          /\ raised' = json_error(resp)
          /\ metadata' = IF IsNone(raised') THEN resp.json ELSE None
    /\ pc' = IF IsNone(raised') THEN after("metadata") ELSE "except"
    /\ UNCHANGED << vsput_state, cli_state, session_state, temp_id, upload_info, result, returned >>

\* upload.py:85-86, when the ticket has no meta_url: metadata stays None
skip_metadata ==
    /\ pc = "metadata"
    /\ ~ has_meta_url(Val(upload_info))
    /\ metadata' = None
    /\ pc' = after("metadata")
    /\ UNCHANGED << vsput_state, cli_state, session_state, temp_id, upload_info, result, calls, raised, returned >>

\* Python truthiness of an Optional[str] / Optional[dict]
truthy_str(x) == ~ IsNone(x) /\ Val(x) # ""
truthy_dict(x) == ~ IsNone(x) /\ DOMAIN Val(x) # {}

\* dict_get, with a default in place of None
dict_get_defaulted(d, key) == IF key \in DOMAIN d THEN Some(d[key]) ELSE Some("0")

\* dict.get(key): the value, or None
dict_get(d, key) == IF key \in DOMAIN d THEN Some(d[key]) ELSE None

\* batch_item, with the metadata keys merged whether or not there is metadata
batch_item_always_merged(media_gid, md, sub) ==
    [ k \in MetaKeys |-> IF truthy_dict(md) THEN dict_get(Val(md), k) ELSE None ]
    @@ [ media_gid   |-> media_gid,
         labels      |-> <<>>,
         description |-> "",
         title       |-> "",
         entity_gids |-> << DefaultEntity >>,
         media_path  |-> IF truthy_str(sub) THEN << Val(sub) >> ELSE <<>> ]

\* batch_item, with the destination folder left out
batch_item_no_folder(media_gid, md, sub) ==
    LET base == [ media_gid   |-> media_gid,
                  labels      |-> <<>>,
                  description |-> "",
                  title       |-> "",
                  entity_gids |-> << DefaultEntity >>,
                  media_path  |-> <<>> ]
    IN  IF truthy_dict(md)
        THEN [ k \in MetaKeys |-> dict_get(Val(md), k) ] @@ base
        ELSE base

\* upload.py:327-347: the element of the batch-update payload
batch_item(media_gid, md, sub) ==
    LET base == [ media_gid   |-> media_gid,
                  labels      |-> <<>>,
                  description |-> "",
                  title       |-> "",
                  entity_gids |-> << DefaultEntity >>,
                  media_path  |-> IF truthy_str(sub) THEN << Val(sub) >> ELSE <<>> ]
    IN  IF truthy_dict(md)
        THEN [ k \in MetaKeys |-> dict_get(Val(md), k) ] @@ base
        ELSE base

\* batch_request, with the media id read from the finish-upload response
batch_request_gid_of_result(media_gid, md, sub) ==
    [ step |-> "Associate", client |-> "session", method |-> "PUT", url |-> BatchUrl,
      json |-> << batch_item(Val(result).media_gid, md, sub) >> ]

\* upload.py:324, 349, 373: the batch-update request
batch_request(media_gid, md, sub) ==
    [ step |-> "Associate", client |-> "session", method |-> "PUT", url |-> BatchUrl,
      json |-> << batch_item(media_gid, md, sub) >> ]

\* return_value, with the batch-update response returned
return_value_of_batch(finish_data, batch_data) == batch_data

\* upload.py:93: upload_file returns the finish-upload response; the
\* batch-update response is logged and dropped (upload.py:376-379)
return_value(finish_data, batch_data) == finish_data

\* upload.py:90-93 and 320-379
batch_update ==
    /\ pc = "associate"
    /\ \E resp \in Responses(BatchResponses), sc \in SetCookieChoices :
          /\ sessions' = received(sessions, client, sc)
          /\ cookie_refreshes' = refreshes_left(sc)
          /\ calls' = Append(calls, call(batch_request(Val(upload_info)["media_gid"],
                                                           metadata, subfolder), resp))
          /\ raised' = json_error(resp)
          /\ returned' = IF IsNone(raised')
                         THEN return_value(result, resp.json)
                         ELSE None
    /\ pc' = IF IsNone(raised') THEN after("associate") ELSE "except"
    /\ UNCHANGED << vsput_state, cli_state, locals >>

\* cli.py:207-218: upload_file returned result. The two lines echoed at
\* --log-level DEBUG (cli.py:214-216) are left out.
vsput_success ==
    /\ pc = "return"
    /\ stdout' = Append(stdout, << "Successfully uploaded: ", file_path.name >>)
    /\ successful_uploads' = Append(successful_uploads, file_path.name)
    /\ pc' = "loop"
    /\ UNCHANGED << other_state, command, opts, auth_file, loads, sessions, cookie_refreshes, client, file_paths,
                    subfolder, idx, locals, calls, folder_calls, attempted, api_raised,
                    api_returned, raised,
                    returned, stderr, failed_uploads, exit_code >>

\* Python's exception classes: isinstance(an exception of class type, cls)
is_instance(type, cls) ==
    \/ type = cls
    \/ cls = "Exception"
    \/ cls = "ValueError" /\ type = "JSONDecodeError"
    \/ cls = "HTTPError" /\ type = "HTTPStatusError"

\* cli.py:220-232: the lines the except clause that catches e prints for name
vsput_error_lines(e, name) ==
    IF is_instance(e.type, "ValueError")
    THEN << << "Validation error for ", name, ": ", e.msg >>,
            << "Supported file types: ", "SUPPORTED_EXTENSIONS" >> >>
    ELSE IF is_instance(e.type, "FileNotFoundError")
         THEN << << "File not found: ", name, " - ", e.msg >> >>
         ELSE << << "Error uploading ", name, ": ", e.msg >> >>

\* after_except, with the failed file uploaded once more
after_except_retry == "upload_file"

\* after_except, with the first failure ending the loop
after_except_abort == "exit"

\* cli.py:220-232: each except clause ends the iteration, and the for loop
\* goes on
after_except == "loop"

\* cli.py:220-232: upload_file raised
vsput_except ==
    /\ pc = "except"
    /\ stderr' = stderr \o vsput_error_lines(Val(raised), file_path.name)
    /\ failed_uploads' = Append(failed_uploads, file_path.name)
    /\ pc' = after_except
    /\ UNCHANGED << other_state, command, opts, auth_file, loads, sessions, cookie_refreshes, client, file_paths,
                    subfolder, idx, locals, calls, folder_calls, attempted, api_raised,
                    api_returned, raised,
                    returned, stdout, successful_uploads, exit_code >>

\* vsput_exit_code, with failures left out of the exit code
vsput_exit_code_zero(failed) == 0

\* cli.py:237-239: the exit code vsput ends with
vsput_exit_code(failed) == IF failed # <<>> THEN 1 ELSE 0

\* cli.py:234-239: after the loop
vsput_summary ==
    /\ pc = "loop"
    /\ idx = Len(file_paths)
    /\ stdout' = IF successful_uploads # <<>>
                 THEN Append(stdout, << "Successfully uploaded ",
                                        ToString(Len(successful_uploads)), " file(s)" >>)
                 ELSE stdout
    /\ stderr' = IF failed_uploads # <<>>
                 THEN Append(stderr, << "Failed to upload ",
                                        ToString(Len(failed_uploads)), " file(s)" >>)
                 ELSE stderr
    /\ exit_code' = Some(vsput_exit_code(failed_uploads))
    /\ pc' = "exit"
    /\ UNCHANGED << other_state, command, opts, auth_file, loads, sessions, cookie_refreshes, client, file_paths,
                    subfolder, idx, locals, calls, folder_calls, attempted, api_raised,
                    api_returned, raised,
                    returned, successful_uploads, failed_uploads >>


\* ------------------------------------------------------------------------
\* The vsdir commands (cli.py:81-172) over VSApi (api.py)
\* ------------------------------------------------------------------------
\* api.py:57, 119, 190
FoldersUrl == "https://vistasocial.com/api/publishing/media/folders"
FolderUrl  == "https://vistasocial.com/api/publishing/media/folder"

\* JSON null and a JSON array, as values of one shape
JsonNull == [ kind |-> "null", items |-> <<>> ]
JsonList(items) == [ kind |-> "list", items |-> items ]

\* What the vendor may answer to the folder calls.
FolderBeta  == [ title |-> "Beta", id |-> "F2", created_at |-> "2024-01-02" ]
FolderAlpha == [ title |-> "Alpha", id |-> "F1" ]
ListBodies ==
    { [ data |-> JsonList(<<>>) ],
      [ data |-> JsonList(<< FolderBeta, FolderAlpha >>) ],
      [ data |-> JsonNull ],
      [ total |-> "0" ] }
CreateBodies ==
    { [ id |-> "F9", title |-> "New" ],
      [ error |-> "Folder exists" ],
      [ error |-> "Folder exists", id |-> "F9" ] }

\* api.py:84, 155, 213: response.raise_for_status(); the message of httpx
\* names the URL of the request
folder_status_error(req, resp) ==
    IF resp.status # "2xx"
    THEN Error("HTTPStatusError", "Client error for url '" \o req.url \o "'")
    ELSE None

\* response.raise_for_status() followed by response.json()
folder_json_error(req, resp) ==
    IF resp.status # "2xx" THEN folder_status_error(req, resp)
    ELSE IF IsNone(resp.json) THEN Error("JSONDecodeError", "Expecting value")
    ELSE None

\* needs_session, with a session created on every call
needs_session_always(c) == TRUE

\* api.py:37-40: _ensure_client creates a session only when there is none
needs_session(c) == IsNone(c)

\* cli.py:86-88, 119-121, 164-166; api.py:18-30: VSAuth(), VSApi(auth) and
\* __enter__, which creates the session
folder_enter ==
    /\ pc = "folder"
    /\ loads' = loads + 1
    /\ api_raised' = load_cookies_error(auth_file)
    /\ IF IsNone(api_raised')
       THEN /\ sessions' = Append(sessions, new_session(StoredCookies))
            /\ client' = Some(Len(sessions'))
            /\ pc' = CASE command = "add"    -> "create_folder"
                       [] command = "list"   -> "get_folders"
                       [] command = "delete" -> "delete_folder"
       ELSE /\ pc' = "folder_except"
            /\ UNCHANGED << sessions, client >>
    /\ stderr' = stderr \o load_cookies_log(auth_file)
    /\ UNCHANGED << other_state, command, opts, auth_file, cookie_refreshes, file_paths, subfolder, idx,
                    locals, calls, raised, returned, folder_calls, attempted, api_returned, stdout,
                    successful_uploads, failed_uploads, exit_code >>

\* api.py:55, 117, 188: self._ensure_client() at the head of each method.
\* The session the method goes on with and what creating it changed, or the
\* error of load_cookies.
ensure_client ==
    IF needs_session(client)
    THEN [ error    |-> load_cookies_error(auth_file),
           loads    |-> loads + 1,
           sessions |-> IF IsNone(load_cookies_error(auth_file))
                        THEN Append(sessions, new_session(StoredCookies))
                        ELSE sessions,
           client   |-> IF IsNone(load_cookies_error(auth_file))
                        THEN Some(Len(sessions) + 1)
                        ELSE client ]
    ELSE [ error |-> None, loads |-> loads, sessions |-> sessions, client |-> client ]

\* An entry of folder_calls: the request, the cookies of the session it is
\* sent through and the answer.
folder_call(req, c, all, resp) ==
    [ req |-> req, cookies |-> Pairs(all[Val(c)].cookies), resp |-> resp ]

\* Python truthiness of an optional string
truthy_opt(v) == ~ IsNone(v) /\ Val(v) # ""

\* api.py:119-127, 154: the folder-create request
create_request(name, media_path) ==
    [ step |-> "CreateFolder", method |-> "POST", url |-> FolderUrl,
      json |-> [ title |-> name, description |-> "",
                 media_path |-> IF truthy_opt(media_path) THEN Some(<< Val(media_path) >>) ELSE None,
                 labels |-> <<>>, entity_gids |-> <<>> ] ]

\* create_error, with the error field of the body not looked at
create_error_unchecked(req, resp) == folder_json_error(req, resp)

\* api.py:154-168: the error create_folder raises on an answer, or None
create_error(req, resp) ==
    IF ~ IsNone(folder_json_error(req, resp))
    THEN folder_json_error(req, resp)
    ELSE IF "error" \in DOMAIN Val(resp.json)
         THEN Error("HTTPStatusError", "API Error: " \o Val(resp.json).error)
         ELSE None

\* api.py:167, 173-175: what create_folder logs for the error e it raises
create_log(name, resp, e) ==
    IF ~ is_instance(e.type, "HTTPError") THEN <<>>
    ELSE (IF resp.status = "2xx"
          THEN << << "vsdir: API api_returned error: ", Val(resp.json).error >> >>
          ELSE <<>>)
         \o << << "vsdir: failed to create folder '", name, "': ", e.msg >> >>

\* cli.py:89-96 and api.py:100-175: create_folder, then the success message
create_folder ==
    /\ pc = "create_folder"
    /\ loads' = ensure_client.loads
    /\ client' = ensure_client.client
    /\ IF ~ IsNone(ensure_client.error)
       THEN /\ api_raised' = ensure_client.error
            /\ sessions' = ensure_client.sessions
            /\ UNCHANGED << cookie_refreshes, folder_calls, api_returned, stdout, stderr >>
       ELSE \E resp \in Responses(CreateBodies), sc \in SetCookieChoices :
            LET req == create_request(opts.folder_name, opts.media_path) IN
            /\ folder_calls' = Append(folder_calls,
                                      folder_call(req, client', ensure_client.sessions, resp))
            /\ sessions' = received(ensure_client.sessions, client', sc)
            /\ cookie_refreshes' = refreshes_left(sc)
            /\ api_raised' = create_error(req, resp)
            /\ IF IsNone(api_raised')
               THEN /\ api_returned' = resp.json
                    /\ stdout' = Append(stdout, << "Successfully created folder: ",
                                                   opts.folder_name >>)
                    /\ stderr' = stderr
               ELSE /\ stderr' = stderr \o create_log(opts.folder_name, resp, Val(api_raised'))
                    /\ UNCHANGED << api_returned, stdout >>
    /\ pc' = "folder_exit"
    /\ UNCHANGED << other_state, command, opts, auth_file, file_paths, subfolder, idx, locals, calls, raised, returned,
                    attempted, successful_uploads, failed_uploads, exit_code >>

\* api.py:57-60, 83: the folder-list request
list_request(media_path) ==
    [ step |-> "GetFolders", method |-> "GET", url |-> FoldersUrl,
      params |-> IF truthy_opt(media_path)
                 THEN [ q |-> "", media_path |-> Val(media_path) ]
                 ELSE [ q |-> "" ] ]

\* api.py:92: data.get('data', [])
folders_of(body) == IF "data" \in DOMAIN body THEN body.data ELSE JsonList(<<>>)

\* api.py:83-94: the error get_folders raises on an answer, or None. The
\* f-string of api.py:93 takes len(folders), which raises TypeError on None.
list_error(req, resp) ==
    IF ~ IsNone(folder_json_error(req, resp))
    THEN folder_json_error(req, resp)
    ELSE IF folders_of(Val(resp.json)).kind = "null"
         THEN Error("TypeError", "object of type 'NoneType' has no len()")
         ELSE None

\* api.py:42-98
get_folders ==
    /\ pc = "get_folders"
    /\ loads' = ensure_client.loads
    /\ client' = ensure_client.client
    /\ IF ~ IsNone(ensure_client.error)
       THEN /\ api_raised' = ensure_client.error
            /\ sessions' = ensure_client.sessions
            /\ UNCHANGED << cookie_refreshes, folder_calls, api_returned, stderr >>
       ELSE \E resp \in Responses(ListBodies), sc \in SetCookieChoices :
            LET req == list_request(opts.media_path) IN
            /\ folder_calls' = Append(folder_calls,
                                      folder_call(req, client', ensure_client.sessions, resp))
            /\ sessions' = received(ensure_client.sessions, client', sc)
            /\ cookie_refreshes' = refreshes_left(sc)
            /\ api_raised' = list_error(req, resp)
            /\ api_returned' = IF IsNone(api_raised') THEN Some(folders_of(Val(resp.json))) ELSE api_returned
            /\ stderr' = IF ~ IsNone(api_raised') /\ is_instance(Val(api_raised').type, "HTTPError")
                         THEN Append(stderr, << "vsdir: failed to get folders: ",
                                                Val(api_raised').msg >>)
                         ELSE stderr
    /\ pc' = IF IsNone(api_raised') THEN "list_print" ELSE "folder_exit"
    /\ UNCHANGED << other_state, command, opts, auth_file, file_paths, subfolder, idx, locals, calls, raised, returned,
                    attempted, stdout, successful_uploads, failed_uploads, exit_code >>

\* folder.get(key, '')
folder_get(folder, key) == IF key \in DOMAIN folder THEN folder[key] ELSE ""

\* json.dumps of one folder, its keys in the order of the answer
dumps_folder(folder) ==
    "{" \o (IF "title" \in DOMAIN folder THEN "title: " \o folder.title \o ", " ELSE "")
        \o (IF "id" \in DOMAIN folder THEN "id: " \o folder.id \o ", " ELSE "")
        \o (IF "created_at" \in DOMAIN folder THEN "created_at: " \o folder.created_at ELSE "")
        \o "}"

\* cli.py:126: json.dumps(folders, indent=2), the text of one click.echo
json_dumps(folders) ==
    IF folders = <<>>
    THEN << "[]" >>
    ELSE << "[" >> \o [ i \in DOMAIN folders |-> dumps_folder(folders[i]) ] \o << "]" >>

\* cli.py:130-135: the rows csv.writer writes, one per folder
csv_rows(folders) ==
    [ i \in DOMAIN folders |-> << folder_get(folders[i], "title"),
                                  folder_get(folders[i], "id"),
                                  folder_get(folders[i], "created_at") >> ]

\* The order of Python's str comparison on the titles of the model.
TitleOrder == << "", "Alpha", "Beta" >>
title_rank(title) == CHOOSE k \in DOMAIN TitleOrder : TitleOrder[k] = title

\* cli.py:138-140: the titles, sorted, one line each
sorted_titles(folders) ==
    LET titles == [ i \in DOMAIN folders |-> folder_get(folders[i], "title") ]
        sorted == SortSeq(titles, LAMBDA a, b : title_rank(a) < title_rank(b))
    IN  [ i \in DOMAIN sorted |-> << sorted[i] >> ]

\* cli.py:124-140: what list_folders prints for the folders returned
list_output(output, folders) ==
    CASE output = "json"   -> << json_dumps(folders) >>
      [] output = "csv"    -> csv_rows(folders)
      [] output = "titles" -> sorted_titles(folders)

\* cli.py:124-140
list_print ==
    /\ pc = "list_print"
    /\ stdout' = stdout \o list_output(opts.output, Val(api_returned).items)
    /\ pc' = "folder_exit"
    /\ UNCHANGED << other_state, command, opts, auth_file, loads, sessions, client, cookie_refreshes,
                    file_paths, subfolder, idx, locals, calls, raised, returned, folder_calls, attempted,
                    api_raised, api_returned, stderr, successful_uploads, failed_uploads,
                    exit_code >>

\* api.py:190, 212: the folder-delete request
delete_request(folder_id) ==
    [ step |-> "DeleteFolder", method |-> "DELETE", url |-> FolderUrl \o "/" \o folder_id ]

\* delete_error, with the status never checked
delete_error_ignored(req, resp) == None

\* api.py:212-213: the error delete_folder raises on an answer, or None; the
\* body of the answer is not read
delete_error(req, resp) == folder_status_error(req, resp)

\* cli.py:167-168 and api.py:179-222: delete_folder, then the success message
delete_folder ==
    /\ pc = "delete_folder"
    /\ loads' = ensure_client.loads
    /\ client' = ensure_client.client
    /\ IF ~ IsNone(ensure_client.error)
       THEN /\ api_raised' = ensure_client.error
            /\ sessions' = ensure_client.sessions
            /\ UNCHANGED << cookie_refreshes, folder_calls, stdout, stderr >>
       ELSE \E resp \in StatusResponses, sc \in SetCookieChoices :
            LET req == delete_request(opts.folder_id) IN
            /\ folder_calls' = Append(folder_calls,
                                      folder_call(req, client', ensure_client.sessions, resp))
            /\ sessions' = received(ensure_client.sessions, client', sc)
            /\ cookie_refreshes' = refreshes_left(sc)
            /\ api_raised' = delete_error(req, resp)
            /\ IF IsNone(api_raised')
               THEN /\ stdout' = Append(stdout, << "Successfully deleted folder: ",
                                                   opts.folder_id >>)
                    /\ stderr' = stderr
               ELSE /\ stderr' = Append(stderr, << "vsdir: failed to delete folder '",
                                                   opts.folder_id, "': ", Val(api_raised').msg >>)
                    /\ stdout' = stdout
    /\ pc' = "folder_exit"
    /\ UNCHANGED << other_state, command, opts, auth_file, file_paths, subfolder, idx, locals, calls, raised, returned,
                    attempted, api_returned, successful_uploads, failed_uploads, exit_code >>

\* api.py:32-35: self.client.close()
closed(sess) == [ sess EXCEPT !.open = FALSE ]

\* api.py:32-35: __exit__ at the end of the with block, on return and on
\* raise alike; the command then ends (exit code 0) or goes to its handler
folder_exit ==
    /\ pc = "folder_exit"
    /\ sessions' = IF IsNone(client)
                   THEN sessions
                   ELSE [ sessions EXCEPT ![Val(client)] = closed(@) ]
    /\ IF IsNone(api_raised)
       THEN /\ exit_code' = Some(0)
            /\ pc' = "exit"
       ELSE /\ exit_code' = exit_code
            /\ pc' = "folder_except"
    /\ UNCHANGED << other_state, command, opts, auth_file, loads, client, cookie_refreshes, file_paths,
                    subfolder, idx, locals, calls, raised, returned, folder_calls, attempted, api_raised,
                    api_returned, stdout, stderr, successful_uploads, failed_uploads >>

\* cli.py:98, 142, 170: the head of the message of each command's handler
error_head(cmd) ==
    CASE cmd = "add"    -> "Error creating folder: "
      [] cmd = "list"   -> "Error listing folders: "
      [] cmd = "delete" -> "Error deleting folder: "

\* cli.py:98-100, 142-144, 170-172: except Exception
folder_except ==
    /\ pc = "folder_except"
    /\ stderr' = Append(stderr, << error_head(command), Val(api_raised).msg >>)
    /\ exit_code' = Some(1)
    /\ pc' = "exit"
    /\ UNCHANGED << other_state, command, opts, auth_file, loads, sessions, client, cookie_refreshes,
                    file_paths, subfolder, idx, locals, calls, raised, returned, folder_calls, attempted,
                    api_raised, api_returned, stdout, successful_uploads, failed_uploads >>

Next ==
    \/ vsput_init
    \/ vsput_next_file
    \/ upload_file_validate
    \/ generate_temp_id
    \/ start_upload
    \/ upload_to_s3
    \/ options_request
    \/ finish_upload
    \/ fetch_metadata
    \/ skip_metadata
    \/ batch_update
    \/ vsput_success
    \/ vsput_except
    \/ vsput_summary
    \/ folder_enter
    \/ create_folder
    \/ get_folders
    \/ list_print
    \/ delete_folder
    \/ folder_exit
    \/ folder_except

Spec == Init /\ [][Next]_vars

\* ------------------------------------------------------------------------
\* Properties of one upload_file invocation, read off calls
\* ------------------------------------------------------------------------
StepOrder == << "Start", "Store", "Preflight", "Finish", "Metadata", "Associate" >>
StepIndex(step) == CHOOSE k \in DOMAIN StepOrder : StepOrder[k] = step
StepOf(i) == calls[i].req.step
CallsOf(step) == { i \in DOMAIN calls : StepOf(i) = step }
\* the call got a 2xx answer, with a JSON body where the step reads one
Succeeded(i) ==
    /\ calls[i].resp.status = "2xx"
    /\ StepOf(i) \in { "Start", "Finish", "Metadata", "Associate" } => ~ IsNone(calls[i].resp.json)
\* the start-upload call returned an UploadTicket
HasTicket == calls # <<>> /\ Succeeded(1)
Ticket == Val(calls[1].resp.json)
\* upload_file has ended by raising, and vsput may have handled it
Failed == ~ IsNone(raised) /\ IsNone(returned) /\ pc \in { "except", "loop", "exit" }
\* the preconditions of the current file have been checked
Validated == idx >= 1 /\ pc # "upload_file"

\* C1: the calls of one upload are issued in the order Start, Store,
\* Preflight, Finish, Metadata (only with a meta_url), Associate; when a call
\* is issued, every earlier step has been issued and has answered 2xx, and
\* none is missing. Calls are synchronous: each entry of calls holds its
\* answer before the next entry is appended.
C1_StepsInOrder ==
    \A i \in DOMAIN calls :
        /\ \A j \in 1..(i - 1) :
              /\ StepIndex(StepOf(j)) < StepIndex(StepOf(i))
              /\ calls[j].resp.status = "2xx"
        /\ { StepOf(j) : j \in 1..(i - 1) }
             = { StepOrder[k] : k \in 1..(StepIndex(StepOf(i)) - 1) }
               \ (IF i > 1 /\ "meta_url" \notin DOMAIN Ticket THEN { "Metadata" } ELSE {})

C1_Witness ==
    /\ pc = "return"
    /\ Len(calls) = 6
    /\ [ i \in DOMAIN calls |-> StepOf(i) ] = StepOrder

\* C2: a non-2xx answer to any step makes upload_file raise; that call is
\* the last call of the upload (no later step, no compensating call such as a
\* DELETE of the stored object), and vsput counts the file as failed.
C2_FailureAborts ==
    \A i \in DOMAIN calls :
        calls[i].resp.status = "non2xx" =>
            /\ i = Len(calls)
            /\ Failed
            /\ Val(raised).type = "HTTPStatusError"
            /\ \A j \in DOMAIN calls : calls[j].req.method # "DELETE"
            /\ pc \in { "loop", "exit" } =>
                  /\ failed_uploads # <<>>
                  /\ failed_uploads[Len(failed_uploads)] = file_path.name

C2_Witness ==
    /\ pc = "loop"
    /\ Len(calls) = 4
    /\ StepOf(4) = "Finish"
    /\ calls[2].resp.status = "2xx"
    /\ calls[4].resp.status = "non2xx"

\* C3: the tempId of the finish-upload call is the tempId of the start-upload
\* call of the same upload, the one id generated for it.
C3_SameTempId ==
    \A i \in CallsOf("Start"), j \in CallsOf("Finish") :
        /\ calls[j].req.params.tempId = calls[i].req.params.tempId
        /\ calls[j].req.params.tempId = Val(temp_id)

C3_Witness ==
    /\ pc = "return"
    /\ CallsOf("Finish") # {}
    /\ calls[1].req.params.tempId = make_temp_id(5000, 9999)

\* C4: the id of the finish-upload call and the media_gid of the batch-update
\* element are the media_gid of this upload's start-upload response, for every
\* file of the run.
C4_SameMediaGid ==
    /\ \A i \in CallsOf("Finish") : calls[i].req.params.id = Ticket["media_gid"]
    /\ \A i \in CallsOf("Associate") : calls[i].req.json[1].media_gid = Ticket["media_gid"]

C4_Witness ==
    /\ idx = 2
    /\ Len(successful_uploads) = 1
    /\ pc = "return"
    /\ Ticket["media_gid"] = "g2"
    /\ Val(result).media_gid = "g1"

\* C5: upload_file returns only when every step it issued succeeded, and
\* returns the finish-upload response, not the batch-update response; when it
\* raises, the caller gets no value.
C5_ReturnsFinishResponse ==
    /\ pc = "return" => ~ IsNone(returned)
    /\ ~ IsNone(raised) => IsNone(returned)
    /\ ~ IsNone(returned) =>
          /\ IsNone(raised)
          /\ \A i \in DOMAIN calls : Succeeded(i)
          /\ { StepOf(i) : i \in DOMAIN calls }
               = { StepOrder[k] : k \in DOMAIN StepOrder }
                 \ (IF "meta_url" \notin DOMAIN Ticket THEN { "Metadata" } ELSE {})
          /\ \A i \in CallsOf("Finish") : returned = calls[i].resp.json
          /\ \A i \in CallsOf("Associate") : returned # calls[i].resp.json

C5_Witness ==
    /\ pc = "return"
    /\ returned = Some([media_gid |-> "g1", tempId |-> "srv"])

\* C6: without a meta_url in the start-upload response, no metadata fetch is
\* issued and the batch-update element has none of the metadata keys.
C6_NoMetaUrlNoMetadata ==
    (HasTicket /\ "meta_url" \notin DOMAIN Ticket) =>
        /\ CallsOf("Metadata") = {}
        /\ \A i \in CallsOf("Associate") :
              DOMAIN calls[i].req.json[1] \cap MetaKeys = {}

C6_Witness ==
    /\ pc = "return"
    /\ "meta_url" \notin DOMAIN Ticket
    /\ CallsOf("Associate") # {}

\* C7: with a meta_url in the ticket, the metadata fetch is issued at most
\* once, right after a successful Finish; Associate is issued only right
\* after a successful fetch; once Finish has succeeded the fetch has been
\* issued exactly once by the time the upload goes on or ends; and a failed
\* fetch makes upload_file raise with no batch-update call.
C7_MetadataFetchedOnceAndFatal ==
    (HasTicket /\ "meta_url" \in DOMAIN Ticket) =>
        /\ Cardinality(CallsOf("Metadata")) <= 1
        /\ \A i \in CallsOf("Metadata") :
              /\ i > 1
              /\ StepOf(i - 1) = "Finish"
              /\ Succeeded(i - 1)
        /\ \A i \in CallsOf("Associate") :
              /\ StepOf(i - 1) = "Metadata"
              /\ Succeeded(i - 1)
        /\ (pc # "metadata" /\ \E i \in CallsOf("Finish") : Succeeded(i)) =>
              Cardinality(CallsOf("Metadata")) = 1
        /\ \A i \in CallsOf("Metadata") :
              ~ Succeeded(i) =>
                  /\ i = Len(calls)
                  /\ Failed
                  /\ CallsOf("Associate") = {}

C7_Witness ==
    /\ pc = "loop"
    /\ Len(calls) = 5
    /\ StepOf(5) = "Metadata"
    /\ calls[5].resp.status = "non2xx"
    /\ Succeeded(4)
    /\ failed_uploads # <<>>

\* C8 as stated: whenever the fetch produced a mapping, whatever keys it
\* holds, the batch-update element carries each of the eight metadata keys,
\* with the mapping's value or null.
C8_Original ==
    \A i \in CallsOf("Associate"), m \in CallsOf("Metadata") :
        \A k \in MetaKeys :
            /\ k \in DOMAIN calls[i].req.json[1]
            /\ calls[i].req.json[1][k]
                 = (IF k \in DOMAIN Val(calls[m].resp.json)
                    THEN Some(Val(calls[m].resp.json)[k]) ELSE None)

\* C8, amended: whenever the fetch produced a non-empty mapping, the
\* batch-update element carries each of the eight metadata keys, with the
\* mapping's value unchanged or null when the mapping lacks the key; when the
\* mapping is empty the element carries none of the eight keys.
C8_MetadataMerged ==
    \A i \in CallsOf("Associate"), m \in CallsOf("Metadata") :
        LET item == calls[i].req.json[1]
            md == Val(calls[m].resp.json)
        IN  IF DOMAIN md # {}
            THEN \A k \in MetaKeys :
                    /\ k \in DOMAIN item
                    /\ item[k] = (IF k \in DOMAIN md THEN Some(md[k]) ELSE None)
            ELSE DOMAIN item \cap MetaKeys = {}

C8_Witness ==
    /\ pc = "return"
    /\ \E m \in CallsOf("Metadata") :
          DOMAIN Val(calls[m].resp.json) = { "width", "height", "duration" }
    /\ \E i \in CallsOf("Associate") :
          /\ calls[i].req.json[1]["width"] = Some("width=640")
          /\ calls[i].req.json[1]["pix_fmt"] = None

\* C9: the preconditions are checked in the order regular file, extension,
\* MIME type: the error raised is the one of the first precondition that
\* fails; a failed precondition means no correlation id and no network call;
\* a correlation id is generated only when all three hold.
ExtensionOk(f) == f.ext \in SUPPORTED_EXTENSIONS
MimeOk(f) == ~ IsNone(f.mime) /\ Val(f.mime) \in DOMAIN SUPPORTED_IMAGE_TYPES
C9_PreconditionsInOrder ==
    Validated =>
        LET f == file_path
            ok == f.kind = "file" /\ ExtensionOk(f) /\ MimeOk(f)
        IN  /\ ~ ok =>
                  /\ Failed
                  /\ calls = <<>>
                  /\ IsNone(temp_id)
                  /\ Val(raised).msg =
                        (IF f.kind # "file"
                         THEN (IF f.kind = "missing" THEN "File not found" ELSE "Not a file")
                         ELSE IF ~ ExtensionOk(f) THEN "Unsupported file extension"
                         ELSE "Unsupported MIME type")
            /\ (~ IsNone(temp_id) \/ calls # <<>>) => ok

C9_Witness ==
    /\ pc = "except"
    /\ file_path.kind = "file"
    /\ ~ ExtensionOk(file_path)
    /\ ~ MimeOk(file_path)
    /\ calls = <<>>

\* C10 as stated: a path that does not exist or is not a regular file fails
\* with the not-found error, a different error from the one of the
\* extension and MIME gates.
C10_Original ==
    (Validated /\ file_path.kind # "file") =>
        /\ Failed
        /\ Val(raised).type = "FileNotFoundError"

\* C10, amended: a path that does not exist fails with FileNotFoundError; a
\* path that exists but is not a regular file fails with ValueError ("Not a
\* file"), the error type the extension and MIME gates raise too; neither
\* issues a network call.
C10_NotFoundOrNotAFile ==
    Validated =>
        /\ file_path.kind = "missing" =>
              /\ Failed
              /\ Val(raised) = [type |-> "FileNotFoundError", msg |-> "File not found"]
              /\ calls = <<>>
        /\ file_path.kind = "dir" =>
              /\ Failed
              /\ Val(raised) = [type |-> "ValueError", msg |-> "Not a file"]
              /\ calls = <<>>
        /\ (file_path.kind = "file" /\ ~ (ExtensionOk(file_path) /\ MimeOk(file_path))) =>
              /\ Failed
              /\ Val(raised).type = "ValueError"

C10_Witness ==
    /\ pc = "except"
    /\ file_path.kind = "dir"
    /\ Val(raised).type = "ValueError"

\* ------------------------------------------------------------------------
\* File-type validation over every (extension, guessed MIME type) pair
\* ------------------------------------------------------------------------
\* suffix.lower() of the path: every supported extension and three others
Extensions == SUPPORTED_EXTENSIONS \cup { ".exe", ".txt", "" }
\* what mimetypes.guess_type may return for the path: nothing, a supported
\* type or another type
GuessedMimes == { None } \cup { Some(m) : m \in DOMAIN SUPPORTED_IMAGE_TYPES }
                         \cup { Some("text_plain"), Some("application_pdf") }
ValidateInputs ==
    { [ name |-> "x" \o e, kind |-> "file", ext |-> e, mime |-> m, size |-> 3 ] :
        e \in Extensions, m \in GuessedMimes }

\* upload_file is called on one regular file (upload.py:55-62 passed over)
InitValidate ==
    /\ issued = <<>>
    /\ firefox = None
    /\ extracted = None
    /\ auth_text = None
    /\ api_ops = <<>>
    /\ command = "vsput"
    /\ opts = NoOpts
    /\ auth_file = "ok"
    /\ loads = 1
    /\ sessions = << new_session(StoredCookies) >>
    /\ cookie_refreshes = 0
    /\ client = Some(1)
    /\ file_paths \in { << f >> : f \in ValidateInputs }
    /\ subfolder = None
    /\ idx = 1
    /\ pc = "upload_file"
    /\ temp_id = None
    /\ upload_info = None
    /\ result = None
    /\ metadata = None
    /\ calls = <<>>
    /\ folder_calls = <<>>
    /\ attempted = << file_paths[1].name >>
    /\ raised = None
    /\ returned = None
    /\ api_raised = None
    /\ api_returned = None
    /\ stdout = <<>>
    /\ stderr = <<>>
    /\ successful_uploads = <<>>
    /\ failed_uploads = <<>>
    /\ exit_code = None

NextValidate == upload_file_validate

SpecValidate == InitValidate /\ [][NextValidate]_vars

\* the extension is one that SUPPORTED_IMAGE_TYPES lists for the guessed type
Matched(f) ==
    /\ MimeOk(f)
    /\ f.ext \in SUPPORTED_IMAGE_TYPES[Val(f.mime)]

\* C11: for every pair (extension, guessed MIME type), validation passes if
\* and only if the extension is supported and the MIME type is the one whose
\* extension list holds it; every other pair fails with the unsupported-type
\* error (ValueError).
C11_Original ==
    Validated =>
        /\ IsNone(raised) <=> (ExtensionOk(file_path) /\ Matched(file_path))
        /\ ~ IsNone(raised) => Val(raised).type = "ValueError"

\* what the code does on a mismatched pair: a supported extension with
\* another supported MIME type passes
C11_MismatchPasses ==
    /\ Validated
    /\ ExtensionOk(file_path)
    /\ MimeOk(file_path)
    /\ ~ Matched(file_path)
    /\ IsNone(raised)

\* ------------------------------------------------------------------------
\* Properties of the vsput command and of the session
\* ------------------------------------------------------------------------
VendorUrls == { StartUrl, FinishUrl, BatchUrl }
SessionCookies == Pairs(StoredCookies)

\* C12: in every upload, the Store, Preflight and Metadata calls go through
\* a fresh client and carry none of the session's cookies, and the Start,
\* Finish and Associate calls go through the session; no session cookie
\* reaches the pre-signed storage URL or the CDN metadata URL.
C12_FreshClientForStorageAndCdn ==
    \A i \in DOMAIN calls :
        /\ StepOf(i) \in { "Store", "Preflight", "Metadata" } =>
               /\ calls[i].req.client = "fresh"
               /\ calls[i].cookies = {}
               /\ calls[i].req.url \in UploadUrls \cup MetaUrls
        /\ StepOf(i) \in { "Start", "Finish", "Associate" } =>
               /\ calls[i].req.client = "session"
               /\ calls[i].cookies = SessionCookies
               /\ calls[i].req.url \in VendorUrls
        /\ calls[i].req.url \notin VendorUrls => calls[i].cookies \cap SessionCookies = {}

C12_Witness ==
    /\ \A step \in { "Start", "Store", "Preflight", "Finish", "Metadata", "Associate" } :
           CallsOf(step) # {}
    /\ SessionCookies # {}
    /\ ~ IsNone(returned)

\* the session was loaded and vsput has entered its loop
SetupDone == command = "vsput" /\ ~ IsNone(client)
\* upload_file is running on file idx
Uploading == pc \in { "upload_file", "generate_temp_id", "start", "store", "preflight",
                      "finish", "metadata", "associate" }
\* the files whose upload has ended, by returning or by raising
Ended == Len(successful_uploads) + Len(failed_uploads)

Count(seq, x) == Cardinality({ i \in DOMAIN seq : seq[i] = x })

Lines(stream) == { stream[i] : i \in DOMAIN stream }
\* the VSApi method of the command has been called and has ended
ApiCalled == command # "vsput" /\ folder_calls # <<>>
                /\ pc \in { "list_print", "folder_exit", "folder_except", "exit" }
\* the answer to the call of the command, and its JSON body when it has one
Answer == folder_calls[1].resp
HasBody == Answer.status = "2xx" /\ ~ IsNone(Answer.json)
Body == Val(Answer.json)
CreatedLine == << "Successfully created folder: ", opts.folder_name >>
DeletedLine == << "Successfully deleted folder: ", opts.folder_id >>

\* C15: a folder-create answer with an `error` field makes create_folder
\* raise the API error even though the status is 2xx, and `folder add` then
\* prints no success message and exits with code 1; a 2xx answer whose body
\* has no `error` field is returned as the created folder.
C15_ErrorFieldRaises ==
    (command = "add" /\ ApiCalled /\ HasBody) =>
        IF "error" \in DOMAIN Body
        THEN /\ ~ IsNone(api_raised)
             /\ Val(api_raised).type = "HTTPStatusError"
             /\ Val(api_raised).msg = "API Error: " \o Body.error
             /\ IsNone(api_returned)
             /\ CreatedLine \notin Lines(stdout)
             /\ pc = "exit" => exit_code = Some(1)
        ELSE /\ IsNone(api_raised)
             /\ api_returned = Some(Body)
             /\ CreatedLine \in Lines(stdout)
             /\ pc = "exit" => exit_code = Some(0)

C15_Witness ==
    /\ command = "add"
    /\ ApiCalled
    /\ HasBody
    /\ "error" \in DOMAIN Body
    /\ pc = "exit"
    /\ exit_code = Some(1)
    /\ stdout = <<>>

\* the listing has no results: the folders returned are the empty list
NoResults == ~ IsNone(api_returned) /\ Val(api_returned) = JsonList(<<>>)

\* C16: for every 2xx answer of the folder endpoint get_folders returns a
\* list, the `data` array of the answer when it has one and the empty list
\* when it holds no folder data; a listing with no results prints an empty
\* list (JSON), no rows (CSV) or no titles (default) and exits with code 0,
\* never with an error.
C16_Original ==
    (command = "list" /\ ApiCalled /\ Answer.status = "2xx") =>
        /\ IsNone(api_raised)
        /\ ~ IsNone(api_returned)
        /\ Val(api_returned).kind = "list"
        /\ Val(api_returned) =
              IF HasBody /\ "data" \in DOMAIN Body /\ Body.data.kind = "list"
              THEN Body.data
              ELSE JsonList(<<>>)
        /\ (NoResults /\ pc = "exit") =>
              /\ stdout = IF opts.output = "json" THEN << << "[]" >> >> ELSE <<>>
              /\ stderr = <<>>
              /\ exit_code = Some(0)

\* what the code does on a 2xx answer whose `data` is null: get_folders
\* raises and the command ends with an error
C16_NullDataFails ==
    /\ command = "list"
    /\ ApiCalled
    /\ HasBody
    /\ "data" \in DOMAIN Body
    /\ Body.data = JsonNull
    /\ ~ IsNone(api_raised)
    /\ Val(api_raised).type = "TypeError"
    /\ pc = "exit"
    /\ exit_code = Some(1)
    /\ << "Error listing folders: ", Val(api_raised).msg >> \in Lines(stderr)

\* a line of the stream holds the text
Names(stream, text) == \E i \in DOMAIN stream : \E j \in DOMAIN stream[i] : stream[i][j] = text

\* C17: deleting a folder succeeds exactly when the status of the single
\* DELETE call is 2xx; on a non-2xx answer delete_folder raises, and `folder
\* delete` prints no success message, prints an error message that names the
\* folder id, and exits with code 1.
C17_DeleteFailsOnNon2xx ==
    (command = "delete" /\ ApiCalled) =>
        /\ Len(folder_calls) = 1
        /\ folder_calls[1].req.method = "DELETE"
        /\ folder_calls[1].req.url = FolderUrl \o "/" \o opts.folder_id
        /\ IsNone(api_raised) <=> Answer.status = "2xx"
        /\ IF Answer.status = "2xx"
           THEN /\ DeletedLine \in Lines(stdout)
                /\ stderr = <<>>
                /\ pc = "exit" => exit_code = Some(0)
           ELSE /\ Val(api_raised).type = "HTTPStatusError"
                /\ stdout = <<>>
                /\ Names(stderr, opts.folder_id)
                /\ pc = "exit" =>
                      /\ exit_code = Some(1)
                      /\ << "Error deleting folder: ", Val(api_raised).msg >> \in Lines(stderr)

C17_Witness ==
    /\ command = "delete"
    /\ opts.folder_id = "nope"
    /\ ApiCalled
    /\ Answer.status = "non2xx"
    /\ pc = "exit"
    /\ exit_code = Some(1)
    /\ DeletedLine \notin Lines(stdout)

\* ------------------------------------------------------------------------
\* The session under a vendor that may set cookies
\* ------------------------------------------------------------------------
\* one file that fails validation and one that can be uploaded
SessionFiles == { f \in FileInputs : f.name \in { "tool.exe", "photo.png" } }

InitSession ==
    /\ Start
    /\ cookie_refreshes = MaxSetCookies
    /\ command \in Commands
    /\ opts \in CommandOpts(command)
    /\ IF command = "vsput"
       THEN /\ file_paths \in SeqsUpTo(SessionFiles, MaxFiles)
            /\ pc = "vsput"
       ELSE /\ file_paths = <<>>
            /\ pc = "folder"
    /\ subfolder = None
    /\ temp_id = None
    /\ upload_info = None
    /\ result = None
    /\ metadata = None
    /\ calls = <<>>
    /\ raised = None
    /\ returned = None
    /\ successful_uploads = <<>>
    /\ failed_uploads = <<>>
    /\ exit_code = None

SpecSession == InitSession /\ [][Next]_vars

SetCookieNames == { c[1] : c \in SetCookies }

SetupTried == pc \notin { "vsput", "folder" }
\* a VSApi method or the printing of its result is running inside the with block
InScope == pc \in { "create_folder", "get_folders", "list_print", "delete_folder" }

\* C19: one invocation loads the credential file once and creates one
\* session, however many files vsput uploads and whatever a folder command
\* calls: never a second one, and exactly one once the file has loaded; a
\* folder command closes its session when the with block is left, by return
\* and by raise alike, and not before.
C19_OneSessionClosedOnExit ==
    /\ loads = (IF SetupTried THEN 1 ELSE 0)
    /\ Len(sessions) = (IF SetupTried /\ auth_file = "ok" THEN 1 ELSE 0)
    /\ client = (IF sessions = <<>> THEN None ELSE Some(1))
    /\ (calls # <<>> \/ folder_calls # <<>>) => Len(sessions) = 1
    /\ (command # "vsput" /\ sessions # <<>>) =>
          /\ InScope => sessions[1].open
          /\ pc \in { "folder_except", "exit" } => ~ sessions[1].open
    /\ (command = "vsput" /\ sessions # <<>>) => sessions[1].open

C19_Witness ==
    /\ command = "add"
    /\ pc = "exit"
    /\ ~ IsNone(api_raised)
    /\ exit_code = Some(1)
    /\ loads = 1
    /\ Len(sessions) = 1
    /\ ~ sessions[1].open
    /\ Len(folder_calls) = 1

\* C20: when the credential file is missing or cannot be parsed, loading the
\* session fails with the authentication error (RuntimeError) and no session
\* is created; the command, whichever it is, issues no call, attempts no
\* file and exits with code 1.
C20_NoSessionNoCalls ==
    auth_file # "ok" =>
        /\ sessions = <<>>
        /\ IsNone(client)
        /\ calls = <<>>
        /\ folder_calls = <<>>
        /\ attempted = <<>>
        /\ stdout = <<>>
        /\ pc \in { "vsput", "folder", "folder_except", "exit" }
        /\ SetupTried =>
              /\ ~ IsNone(api_raised)
              /\ Val(api_raised).type = "RuntimeError"
        /\ pc = "exit" => exit_code = Some(1)

C20_Witness ==
    /\ auth_file = "missing"
    /\ command = "list"
    /\ pc = "exit"
    /\ exit_code = Some(1)
    /\ folder_calls = <<>>
    /\ << "Error listing folders: ", "Failed to load cookies: Auth file not found" >>
          \in Lines(stderr)

\* ------------------------------------------------------------------------
\* One vsput invocation on a single path
\* ------------------------------------------------------------------------
InitUpload ==
    /\ Start
    /\ cookie_refreshes = 0
    /\ command = "vsput"
    /\ opts = NoOpts
    /\ file_paths \in { << f >> : f \in FileInputs }
    /\ subfolder \in Subfolders
    /\ pc = "vsput"
    /\ temp_id = None
    /\ upload_info = None
    /\ result = None
    /\ metadata = None
    /\ calls = <<>>
    /\ raised = None
    /\ returned = None
    /\ successful_uploads = <<>>
    /\ failed_uploads = <<>>
    /\ exit_code = None

NextUpload ==
    \/ vsput_init
    \/ vsput_next_file
    \/ upload_file_validate
    \/ generate_temp_id
    \/ start_upload
    \/ upload_to_s3
    \/ options_request
    \/ finish_upload
    \/ fetch_metadata
    \/ skip_metadata
    \/ batch_update
    \/ vsput_success
    \/ vsput_except
    \/ vsput_summary

SpecUpload == InitUpload /\ [][NextUpload]_vars

\* C21: in every upload the size declared in the start-upload body is the
\* number of bytes the Store PUT writes, the mimetype declared there is the
\* Content-Type of the PUT, and the PUT and the Preflight OPTIONS both go to
\* the upload_url of this upload's start-upload answer.
C21_StoreMatchesStart ==
    /\ \A i \in CallsOf("Store") \cup CallsOf("Preflight") :
          /\ HasTicket
          /\ StepOf(1) = "Start"
          /\ "upload_url" \in DOMAIN Ticket
          /\ calls[i].req.url = Ticket["upload_url"]
    /\ \A i \in CallsOf("Store") :
          /\ calls[i].req.content_length = calls[1].req.json.size
          /\ calls[i].req.content_length = file_path.size
          /\ calls[i].req.headers.content_type = calls[1].req.json.mimetype
          /\ calls[i].req.headers.content_disposition = "inline"

C21_Witness ==
    /\ pc = "return"
    /\ file_path.name = "photo.png"
    /\ \E i \in CallsOf("Store") :
          /\ calls[i].req.content_length = 5
          /\ calls[i].req.headers.content_type = "image_png"
          /\ calls[i].req.url \in UploadUrls
    /\ CallsOf("Preflight") # {}

\* C22: the batch-update body of every upload is a list of exactly one
\* element; its media_path is the one-element list of the subfolder when a
\* destination folder was given (a non-empty --subfolder) and the empty list
\* otherwise; its labels, description and title are empty and its
\* entity_gids is the one default entity id.
C22_BatchBody ==
    \A i \in CallsOf("Associate") :
        LET body == calls[i].req.json IN
        /\ Len(body) = 1
        /\ body[1].media_path = (IF ~ IsNone(subfolder) /\ Val(subfolder) # ""
                                 THEN << Val(subfolder) >>
                                 ELSE <<>>)
        /\ body[1].labels = <<>>
        /\ body[1].description = ""
        /\ body[1].title = ""
        /\ body[1].entity_gids = << DefaultEntity >>

C22_Witness ==
    /\ pc = "return"
    /\ subfolder = Some("F1")
    /\ \E i \in CallsOf("Associate") :
          /\ Len(calls[i].req.json) = 1
          /\ calls[i].req.json[1].media_path = << "F1" >>

\* C25: within one upload_file invocation each of Start, Store, Preflight,
\* Finish, Metadata and Associate is issued at most once and no call follows
\* a call that failed; vsput attempts each position of file_paths once, so
\* a failed upload is not attempted again.
C25_NoRetry ==
    /\ \A k \in DOMAIN StepOrder : Cardinality(CallsOf(StepOrder[k])) <= 1
    /\ \A i \in DOMAIN calls : ~ Succeeded(i) => i = Len(calls)
    /\ Len(attempted) = idx
    /\ Len(successful_uploads) + Len(failed_uploads) <= idx
    /\ Failed => pc \in { "except", "loop", "exit" }

C25_Witness ==
    /\ pc = "exit"
    /\ failed_uploads = << "photo.png" >>
    /\ attempted = << "photo.png" >>
    /\ Len(calls) = 2
    /\ StepOf(2) = "Store"
    /\ ~ Succeeded(2)

\* load_cookies has been called and has raised
LoadFailed == loads >= 1 /\ sessions = <<>> /\ ~ IsNone(api_raised)

\* C26 as stated: load_cookies raises FileNotFoundError when the credential
\* file does not exist and RuntimeError when it exists but is not valid
\* JSON.
C26_Original ==
    LoadFailed =>
        /\ auth_file = "missing" => Val(api_raised).type = "FileNotFoundError"
        /\ auth_file = "invalid" => Val(api_raised).type = "RuntimeError"

\* C26, as the code behaves: a missing credential file reaches the caller as
\* a RuntimeError, the type an invalid file is reported with.
C26_MissingFileIsRuntimeError ==
    /\ LoadFailed
    /\ pc = "exit"
    /\ auth_file = "missing"
    /\ Val(api_raised).type = "RuntimeError"
    /\ Val(api_raised).msg = "Failed to load cookies: Auth file not found"

\* C27 as stated: a Store PUT or a Preflight is issued only for a ticket
\* that holds both upload_url and media_gid.
C27_Original ==
    \A i \in CallsOf("Store") \cup CallsOf("Preflight") :
        /\ HasTicket
        /\ { "upload_url", "media_gid" } \subseteq DOMAIN Ticket

\* C27, as the code behaves: with a ticket that lacks media_gid the bytes
\* are stored and the preflight is sent before the upload fails on the
\* missing field.
C27_StoredWithoutMediaGid ==
    /\ pc = "exit"
    /\ HasTicket
    /\ "media_gid" \notin DOMAIN Ticket
    /\ Len(calls) = 3
    /\ StepOf(2) = "Store" /\ Succeeded(2)
    /\ StepOf(3) = "Preflight" /\ Succeeded(3)
    /\ raised = Error("KeyError", "media_gid")
    /\ failed_uploads = << file_path.name >>

(***************************************************************************)
(* _generate_temp_id on its own: the ids one invocation is given, from the *)
(* clock readings and the random numbers of its successive calls.          *)
(***************************************************************************)

\* How many ids one invocation asks for.
MaxIds == 2

\* Clock readings in microseconds: two within one millisecond, and two
\* that are 8999 ms and 9000 ms after the first.
ClockReadings == { 5000000, 5000999, 13999000, 14000000 }

\* What random.randint(1000, 9999) may return: the ends of its range and
\* their neighbours.
RandomInts == { RandMin, RandMin + 1, RandMax - 1, RandMax }

\* Nothing else runs while the ids are drawn.
Idle ==
    /\ opts = NoOpts
    /\ loads = 0
    /\ sessions = <<>>
    /\ cookie_refreshes = 0
    /\ client = None
    /\ file_paths = <<>>
    /\ subfolder = None
    /\ idx = 0
    /\ temp_id = None
    /\ upload_info = None
    /\ result = None
    /\ metadata = None
    /\ calls = <<>>
    /\ folder_calls = <<>>
    /\ attempted = <<>>
    /\ raised = None
    /\ returned = None
    /\ api_raised = None
    /\ api_returned = None
    /\ stdout = <<>>
    /\ stderr = <<>>
    /\ successful_uploads = <<>>
    /\ failed_uploads = <<>>
    /\ exit_code = None

flow_state == << command, opts, auth_file, loads, sessions, cookie_refreshes, client, file_paths,
                 subfolder, idx, pc, temp_id, upload_info, result, metadata, calls, folder_calls,
                 attempted, raised, returned, api_raised, api_returned, stdout, stderr,
                 successful_uploads, failed_uploads, exit_code >>

InitTempId ==
    /\ Idle
    /\ command = "vsput"
    /\ pc = "idle"
    /\ auth_file = "ok"
    /\ issued = <<>>
    /\ firefox = None
    /\ extracted = None
    /\ auth_text = None
    /\ api_ops = <<>>

\* upload.py:109-115, called once more; the clock does not run backwards
next_temp_id ==
    /\ Len(issued) < MaxIds
    /\ \E now \in ClockReadings, random_num \in RandomInts :
          /\ issued # <<>> => now >= issued[Len(issued)].now
          /\ issued' = Append(issued, [now |-> now,
                                       random_num |-> random_num,
                                       id |-> make_temp_id(timestamp_of(now), random_num)])
    /\ UNCHANGED << flow_state, firefox, extracted, auth_text, api_ops >>

NextTempId == next_temp_id

SpecTempId == InitTempId /\ [][NextTempId]_vars

\* C23 as stated: any two ids issued in one invocation differ.
C23_Original ==
    \A i, j \in 1..Len(issued) : i # j => issued[i].id # issued[j].id

\* C23: every correlation id is the decimal text of floor(now in ms) + r
\* with r in 1000..9999; two ids of one invocation are equal exactly when
\* these sums are equal, so they differ whenever the two clock readings are
\* more than 8999 ms apart, and may coincide when they are closer.
C23_TempIdIsSum ==
    /\ \A i \in 1..Len(issued) :
          /\ issued[i].random_num \in RandMin..RandMax
          /\ issued[i].id = ToString((issued[i].now \div 1000) + issued[i].random_num)
    /\ \A i, j \in 1..Len(issued) :
          LET ti == issued[i].now \div 1000
              tj == issued[j].now \div 1000
          IN  /\ (issued[i].id = issued[j].id)
                    <=> (ti + issued[i].random_num = tj + issued[j].random_num)
              /\ tj - ti > RandMax - RandMin => issued[i].id # issued[j].id

C23_Witness ==
    /\ Len(issued) = 2
    /\ issued[1].now = 5000999
    /\ issued[1].id = "14999"
    /\ issued[2].now = 14000000
    /\ issued[2].id = "15000"

(***************************************************************************)
(* vsauth: the cookies of Firefox are extracted and written to the         *)
(* credential file.                                                        *)
(***************************************************************************)

\* How many cookies Firefox holds for the domain at most.
MaxCookies == 2

\* The cookies browser_cookie3 may yield; a name may occur more than once
\* (one cookie per host and path).
BrowserCookies == { [name |-> n, value |-> v] : n \in { "sid", "csrf" }, v \in { "abc", "new" } }

\* auth.py:42: None when browser_cookie3.firefox raises, else the cookies
\* of the domain in the order of its jar.
FirefoxStores ==
    { None } \cup { Some(cs) : cs \in { <<>> } \cup SeqsUpTo(BrowserCookies, MaxCookies) }

\* A text that is not JSON.
NotJson == [kind |-> "text", members |-> <<>>]

\* auth.py:70: the text json.dump writes for a dict, its members in the
\* order of the dict.
json_dump(d) == [kind |-> "object", members |-> d]

\* auth.py:90: the dict json.load reads from a text, or None when the text
\* is not JSON.
json_load(text) == IF text.kind = "object" THEN Some(text.members) ELSE None

\* The credential file before vsauth runs: absent, not JSON, or the cookies
\* of an earlier run.
AuthTexts ==
    { None, Some(NotJson),
      Some(json_dump(<< [name |-> "sid", value |-> "abc"], [name |-> "csrf", value |-> "xyz"] >>)) }

\* d[k] = v of a Python dict: a new key goes last, a known key keeps its place.
dict_set(d, k, v) ==
    IF \E i \in DOMAIN d : d[i].name = k
    THEN [i \in DOMAIN d |-> IF d[i].name = k THEN [name |-> k, value |-> v] ELSE d[i]]
    ELSE Append(d, [name |-> k, value |-> v])

\* auth.py:45: {cookie.name: cookie.value for cookie in cookies}
RECURSIVE cookie_dict(_)
cookie_dict(cookies) ==
    IF cookies = <<>>
    THEN <<>>
    ELSE LET last == cookies[Len(cookies)]
         IN  dict_set(cookie_dict(SubSeq(cookies, 1, Len(cookies) - 1)), last.name, last.value)

\* extract_cookies_error, with the empty dict let through
extract_cookies_error_never(store) ==
    IF IsNone(store)
    THEN Error("RuntimeError", "Failed to extract cookies: Failed to find Firefox cookie file")
    ELSE None

\* auth.py:41-53: the error extract_cookies raises, or None. The
\* RuntimeError of auth.py:48 is caught by the except Exception of
\* auth.py:51 and raised again with a longer message.
extract_cookies_error(store) ==
    IF IsNone(store)
    THEN Error("RuntimeError", "Failed to extract cookies: Failed to find Firefox cookie file")
    ELSE IF cookie_dict(Val(store)) = <<>>
         THEN Error("RuntimeError",
                    "Failed to extract cookies: No cookies found for vistasocial.com in Firefox")
         ELSE None

\* auth.py:63-73: save_cookies may write the file, fail before the file is
\* opened (mkdir or open raises) or fail once open(..., 'w') has emptied it.
SaveOutcomes == { "saved", "not_opened", "not_written" }

save_cookies_error(outcome) ==
    CASE outcome = "saved"       -> None
      [] outcome = "not_opened"  -> Error("RuntimeError", "Failed to save cookies: Permission denied")
      [] outcome = "not_written" -> Error("RuntimeError", "Failed to save cookies: No space left on device")

\* auth.py:69-70: the text of the file after save_cookies
saved_text(before, d, outcome) ==
    CASE outcome = "saved"       -> Some(json_dump(d))
      [] outcome = "not_opened"  -> before
      [] outcome = "not_written" -> Some(NotJson)

InitAuth ==
    /\ Idle
    /\ command = "vsauth"
    /\ pc = "vsauth"
    /\ auth_file = "ok"
    /\ issued = <<>>
    /\ firefox \in FirefoxStores
    /\ extracted = None
    /\ auth_text \in AuthTexts
    /\ api_ops = <<>>

\* what no statement of vsauth touches
auth_frame == << issued, api_ops, firefox, command, opts, auth_file, loads, sessions, cookie_refreshes, client,
                 file_paths, subfolder, idx, temp_id, upload_info, result, metadata, calls,
                 folder_calls, attempted, returned, api_raised, api_returned,
                 successful_uploads, failed_uploads >>

\* cli.py:46-49; auth.py:29-53
vsauth_extract ==
    /\ pc = "vsauth"
    /\ raised' = extract_cookies_error(firefox)
    /\ IF IsNone(raised')
       THEN /\ extracted' = Some(cookie_dict(Val(firefox)))
            /\ pc' = "save_cookies"
            /\ UNCHANGED stderr
       ELSE /\ stderr' = Append(stderr, << "vsauth: failed to extract cookies: ", Val(raised').msg >>)
            /\ pc' = "vsauth_except"
            /\ UNCHANGED extracted
    /\ UNCHANGED << auth_frame, auth_text, stdout, exit_code >>

\* cli.py:52; auth.py:55-73
vsauth_save ==
    /\ pc = "save_cookies"
    /\ \E outcome \in SaveOutcomes :
          /\ auth_text' = saved_text(auth_text, Val(extracted), outcome)
          /\ raised' = save_cookies_error(outcome)
    /\ IF IsNone(raised')
       THEN /\ pc' = "vsauth_echo"
            /\ UNCHANGED stderr
       ELSE /\ stderr' = Append(stderr, << "vsauth: failed to save cookies: ", Val(raised').msg >>)
            /\ pc' = "vsauth_except"
    /\ UNCHANGED << auth_frame, extracted, stdout, exit_code >>

\* cli.py:54-55: the command ends with code 0
vsauth_echo ==
    /\ pc = "vsauth_echo"
    /\ stdout' = stdout \o << << "Successfully extracted ", ToString(Len(Val(extracted))),
                                 " cookies from Firefox" >>,
                              << "Cookies saved to: ", "auth_file" >> >>
    /\ exit_code' = Some(0)
    /\ pc' = "exit"
    /\ UNCHANGED << auth_frame, extracted, auth_text, raised, stderr >>

\* cli.py:57-59: except Exception
vsauth_except ==
    /\ pc = "vsauth_except"
    /\ stderr' = Append(stderr, << "Error: ", Val(raised).msg >>)
    /\ exit_code' = Some(1)
    /\ pc' = "exit"
    /\ UNCHANGED << auth_frame, extracted, auth_text, raised, stdout >>

NextAuth ==
    \/ vsauth_extract
    \/ vsauth_save
    \/ vsauth_echo
    \/ vsauth_except

SpecAuth == InitAuth /\ [][NextAuth]_vars

\* Firefox can be read and holds a cookie of the domain
CookiesFound == ~ IsNone(firefox) /\ Val(firefox) # <<>>
\* the value the last cookie named n of Firefox has
LastValue(n) ==
    LET cs == Val(firefox)
        at == CHOOSE i \in DOMAIN cs : cs[i].name = n /\ \A j \in DOMAIN cs : cs[j].name = n => j <= i
    IN  cs[at].value
\* the text holds exactly the name-to-value mapping of the cookies of Firefox
HoldsExtracted(text) ==
    /\ ~ IsNone(json_load(text))
    /\ LET d == Val(json_load(text))
       IN  /\ { d[i].name : i \in DOMAIN d } = { Val(firefox)[i].name : i \in DOMAIN Val(firefox) }
           /\ \A i, j \in DOMAIN d : d[i].name = d[j].name => i = j
           /\ \A i \in DOMAIN d : d[i].value = LastValue(d[i].name)

\* C24: when no cookies are found for the domain, vsauth ends with the
\* authentication error on stderr and exit code 1 and no step changes the
\* credential file; the file changes only in save_cookies, after a
\* successful extraction; and when vsauth ends with code 0 the file holds
\* exactly the extracted name-to-value mapping.
C24_FileWrittenOnlyAfterExtraction ==
    /\ [] /\ (pc = "exit" /\ ~ CookiesFound)
               => /\ exit_code = Some(1)
                  /\ ~ IsNone(raised) /\ Val(raised).type = "RuntimeError"
                  /\ << "Error: ", Val(raised).msg >> \in Lines(stderr)
                  /\ stdout = <<>>
          /\ (pc = "exit" /\ exit_code = Some(0))
               => /\ CookiesFound
                  /\ ~ IsNone(auth_text)
                  /\ HoldsExtracted(Val(auth_text))
    /\ [][ /\ ~ CookiesFound => auth_text' = auth_text
           /\ auth_text' # auth_text => (pc = "save_cookies" /\ CookiesFound /\ ~ IsNone(extracted))
         ]_vars

C24_Witness ==
    /\ pc = "exit"
    /\ firefox = Some(<<>>)
    /\ exit_code = Some(1)
    /\ auth_text = Some(NotJson)

(***************************************************************************)
(* VSApi used as an object: a caller enters and leaves its context and     *)
(* calls its methods in any order.                                         *)
(***************************************************************************)

\* How many operations the caller performs.
MaxOps == 3

ApiMethods == { "get_folders", "create_folder", "delete_folder" }

\* the with blocks of the object the caller is inside of
Depth(ops) ==
    Cardinality({ i \in DOMAIN ops : ops[i] = "enter" })
        - Cardinality({ i \in DOMAIN ops : ops[i] = "exit" })

\* api.py:83, 154, 212: the request of each method
api_request(method) ==
    CASE method = "get_folders"   -> list_request(opts.media_path)
      [] method = "create_folder" -> create_request(opts.folder_name, opts.media_path)
      [] method = "delete_folder" -> delete_request(opts.folder_id)

\* what the vendor may answer to each request
api_answers(method) ==
    CASE method = "get_folders"   -> Responses(ListBodies)
      [] method = "create_folder" -> Responses(CreateBodies)
      [] method = "delete_folder" -> StatusResponses

\* api.py:84-94, 155-168, 213: the error each method raises on an answer,
\* or None
api_error(method, req, resp) ==
    CASE method = "get_folders"   -> list_error(req, resp)
      [] method = "create_folder" -> create_error(req, resp)
      [] method = "delete_folder" -> delete_error(req, resp)

\* api.py:96-98, 167, 173-175, 220-222: what each method logs for the error
\* e it raises
api_log(method, resp, e) ==
    CASE method = "create_folder" -> create_log(opts.folder_name, resp, e)
      [] method = "get_folders" ->
            IF is_instance(e.type, "HTTPError")
            THEN << << "vsdir: failed to get folders: ", e.msg >> >>
            ELSE <<>>
      [] method = "delete_folder" ->
            IF is_instance(e.type, "HTTPError")
            THEN << << "vsdir: failed to delete folder '", opts.folder_id, "': ", e.msg >> >>
            ELSE <<>>

\* What httpx raises when a request is handed to a client that was closed.
ClosedClientError ==
    Error("RuntimeError", "Cannot send a request, as the client has been closed.")

\* api.py:32-35: __exit__ closes the client and leaves self.client set
client_after_exit(c) == c

InitApi ==
    /\ Idle
    /\ command = "api"
    /\ pc = "api"
    /\ auth_file \in { "missing", "invalid", "ok" }
    /\ issued = <<>>
    /\ firefox = None
    /\ extracted = None
    /\ auth_text = None
    /\ api_ops = <<>>

\* what no operation of VSApi touches
api_frame == << issued, firefox, extracted, auth_text, command, opts, auth_file,
                file_paths, subfolder, idx, pc, locals, calls, raised, returned, attempted, stdout,
                successful_uploads, failed_uploads, exit_code >>

\* api.py:27-30: __enter__; auth.py:75-131
api_enter ==
    /\ Len(api_ops) < MaxOps
    /\ loads' = loads + 1
    /\ api_raised' = load_cookies_error(auth_file)
    /\ IF IsNone(api_raised')
       THEN /\ sessions' = Append(sessions, new_session(StoredCookies))
            /\ client' = Some(Len(sessions'))
            /\ api_ops' = Append(api_ops, "enter")
       ELSE /\ api_ops' = Append(api_ops, "enter_raised")
            /\ UNCHANGED << sessions, client >>
    /\ stderr' = stderr \o load_cookies_log(auth_file)
    /\ UNCHANGED << api_frame, cookie_refreshes, folder_calls, api_returned >>

\* api.py:32-35: __exit__, at the end of a with block
api_exit ==
    /\ Len(api_ops) < MaxOps
    /\ Depth(api_ops) > 0
    /\ sessions' = IF IsNone(client)
                   THEN sessions
                   ELSE [ sessions EXCEPT ![Val(client)] = closed(@) ]
    /\ client' = client_after_exit(client)
    /\ api_ops' = Append(api_ops, "exit")
    /\ UNCHANGED << api_frame, cookie_refreshes, loads, folder_calls, api_raised, api_returned, stderr >>

\* api.py:42-98, 100-175, 179-222: one of the methods is called
api_call ==
    /\ Len(api_ops) < MaxOps
    /\ \E method \in ApiMethods :
          /\ api_ops' = Append(api_ops, method)
          /\ loads' = ensure_client.loads
          /\ client' = ensure_client.client
          /\ IF ~ IsNone(ensure_client.error)
             THEN /\ api_raised' = ensure_client.error
                  /\ sessions' = ensure_client.sessions
                  /\ stderr' = stderr \o load_cookies_log(auth_file)
                  /\ UNCHANGED << cookie_refreshes, folder_calls, api_returned >>
             ELSE IF ~ ensure_client.sessions[Val(client')].open
             THEN /\ api_raised' = ClosedClientError
                  /\ sessions' = ensure_client.sessions
                  /\ UNCHANGED << cookie_refreshes, folder_calls, api_returned, stderr >>
             ELSE \E resp \in api_answers(method), sc \in SetCookieChoices :
                  LET req == api_request(method) IN
                  /\ folder_calls' = Append(folder_calls,
                                            folder_call(req, client', ensure_client.sessions, resp))
                  /\ sessions' = received(ensure_client.sessions, client', sc)
                  /\ cookie_refreshes' = refreshes_left(sc)
                  /\ api_raised' = api_error(method, req, resp)
                  /\ api_returned' = IF IsNone(api_raised') /\ method # "delete_folder"
                                     THEN (IF method = "get_folders"
                                           THEN Some(folders_of(Val(resp.json)))
                                           ELSE resp.json)
                                     ELSE api_returned
                  /\ stderr' = IF IsNone(api_raised')
                               THEN stderr
                               ELSE stderr \o api_log(method, resp, Val(api_raised'))
    /\ UNCHANGED api_frame

NextApi ==
    \/ api_enter
    \/ api_exit
    \/ api_call

SpecApi == InitApi /\ [][NextApi]_vars

\* the caller has left every with block of the object it entered
LeftEveryContext ==
    /\ api_ops # <<>>
    /\ api_ops[Len(api_ops)] = "exit"
    /\ Depth(api_ops) = 0

\* C28 as stated: every request of a VSApi method is handed to a session
\* that is open at that moment, and once the caller has left the last with
\* block every session the object created is closed.
C28_Original ==
    /\ api_raised # ClosedClientError
    /\ LeftEveryContext => \A i \in DOMAIN sessions : ~ sessions[i].open

\* C28, as the code behaves: a session that _ensure_client created is
\* replaced by __enter__ and stays open after the with block is left.
C28_SessionDroppedOpen ==
    /\ api_ops = << "get_folders", "enter", "exit" >>
    /\ Len(sessions) = 2
    /\ sessions[1].open
    /\ ~ sessions[2].open
    /\ client = Some(2)
====
